---- MODULE Spec2Model ----
(***************************************************************************)
(* Model of the stock-ticker watchlist service (backend/app).              *)
(*                                                                         *)
(* State: the stock_tickers table, the wall clock read by                  *)
(* datetime.utcnow(), and the request handlers in flight.  Each handler    *)
(* runs in its own thread with its own Session, so handlers interleave at  *)
(* their database statements: the SELECT of the lookup and the             *)
(* INSERT/UPDATE/DELETE of the commit are separate steps.                  *)
(*                                                                         *)
(* Strings are sequences of characters; upper() and strip() are computed   *)
(* character by character.                                                 *)
(*                                                                         *)
(* Assumptions: the clock never runs backwards, and two readings of it may *)
(* be equal; a commit and the refresh that follows it are one step; the    *)
(* database is the sqlite database of config.py, whose rowids are          *)
(* max(rowid)+1; the external lookup may answer any input in any of the    *)
(* ways get_stock_info distinguishes.                                      *)
(*                                                                         *)
(* Three specifications share the handlers: Spec interleaves the requests  *)
(* of two threads for one symbol, SeqSpec runs one request at a time over  *)
(* two symbols, InputSpec does so with blank inputs as well.               *)
(***************************************************************************)
EXTENDS Integers, Sequences, FiniteSets

VARIABLES
    store,    \* rows of table stock_tickers
    now,      \* value datetime.utcnow() returns
    req,      \* per handler thread: position and locals of the request in flight
    resp,     \* the response sent last
    issued    \* history: every id the table has handed out so far

vars == <<store, now, req, resp, issued>>

(* ------------------------------ bounds -------------------------------- *)

MaxTime == 2
MaxId == 2

Reqs == {"r1", "r2"}

(* ------------------------------ strings ------------------------------- *)

\* request inputs: "a", "A ", " ab", "Ab"
RawTickers ==
    { <<"a">>, <<"A", " ">>, <<" ", "a", "b">>, <<"A", "b">> }

\* request inputs without a symbol: "", " "
BlankTickers == { <<>>, <<" ">> }

\* request inputs of the concurrent runs, all the same symbol: "a", "A "
RaceTickers == { <<"a">>, <<"A", " ">> }

ord(c) ==
    CASE c = " " -> 32
      [] c = "A" -> 65
      [] c = "B" -> 66
      [] c = "a" -> 97
      [] c = "b" -> 98

isspace(c) == c = " "

upper_char(c) ==
    CASE c = "a" -> "A"
      [] c = "b" -> "B"
      [] OTHER -> c

upper(s) == [i \in 1..Len(s) |-> upper_char(s[i])]

RECURSIVE lstrip(_)
lstrip(s) ==
    IF s # <<>> /\ isspace(Head(s)) THEN lstrip(Tail(s)) ELSE s

RECURSIVE rstrip(_)
rstrip(s) ==
    IF s # <<>> /\ isspace(s[Len(s)]) THEN rstrip(SubSeq(s, 1, Len(s) - 1)) ELSE s

strip(s) == rstrip(lstrip(s))

\* a mutant of NormalizeTicker: the input is uppercased but not trimmed
NormalizeNoStrip(raw) == upper(raw)

\* ticker.upper().strip()
NormalizeTicker(raw) == strip(upper(raw))

\* ORDER BY on a String column: bytewise comparison, a proper prefix first
RECURSIVE StrLess(_, _)
StrLess(a, b) ==
    IF b = <<>> THEN FALSE
    ELSE IF a = <<>> THEN TRUE
    ELSE IF ord(Head(a)) # ord(Head(b)) THEN ord(Head(a)) < ord(Head(b))
    ELSE StrLess(Tail(a), Tail(b))

(* ------------------------------- rows --------------------------------- *)

None == <<"None">>

NoRow ==
    [id |-> 0, ticker |-> <<>>, company_name |-> None, is_active |-> FALSE,
     added_at |-> 0, last_updated |-> 0]

\* the table holds a row with this primary key
HasId(rows, id) == \E row \in rows : row.id = id

RowById(rows, id) == CHOOSE row \in rows : row.id = id

\* a mutant of query_first: the query has lost its filter
query_first_unfiltered(ticker) ==
    IF store # {} THEN CHOOSE row \in store : TRUE ELSE NoRow

\* db.query(StockTicker).filter(StockTicker.ticker == ticker).first()
query_first(ticker) ==
    IF \E row \in store : row.ticker = ticker
    THEN CHOOSE row \in store : row.ticker = ticker
    ELSE NoRow

MaxOf(S) == CHOOSE x \in S : \A y \in S : y <= x

\* Integer primary key on SQLite (no AUTOINCREMENT): the new rowid is one
\* more than the largest rowid now in the table
NextRowId ==
    IF store = {} THEN 1 ELSE MaxOf({row.id : row \in store}) + 1

\* a mutant of UniqueViolation: the column has no unique constraint
NoUniqueConstraint(ticker) == FALSE

\* unique=True on column ticker: the INSERT fails with IntegrityError
UniqueViolation(ticker) == \E row \in store : row.ticker = ticker

\* StockTicker(ticker=..., company_name=...) with the column defaults, which
\* the flush evaluates in column order: added_at at t1, then last_updated at t2
new_ticker(ticker, company_name, t1, t2) ==
    [id |-> NextRowId, ticker |-> ticker, company_name |-> company_name,
     is_active |-> TRUE, added_at |-> t1, last_updated |-> t2]

(* ------------------------- external lookup ---------------------------- *)

ShortName == <<"S">>
LongName == <<"L">>

\* what yf.Ticker(ticker).info can do: raise, or return one of these dicts
YfOutcomes(ticker) ==
    { [raises |-> TRUE,  info |-> [trailingPegRatio |-> None]],
      [raises |-> FALSE, info |-> [trailingPegRatio |-> None]],
      [raises |-> FALSE, info |-> [shortName |-> None]],
      [raises |-> FALSE, info |-> [symbol |-> ticker]],
      [raises |-> FALSE, info |-> [symbol |-> ticker, longName |-> LongName]],
      [raises |-> FALSE, info |-> [symbol |-> ticker, shortName |-> ShortName]] }

\* the lookup outcomes of the one-request-at-a-time runs
SeqOutcomes(ticker) ==
    { [raises |-> TRUE,  info |-> [trailingPegRatio |-> None]],
      [raises |-> FALSE, info |-> [trailingPegRatio |-> None]],
      [raises |-> FALSE, info |-> [symbol |-> ticker, shortName |-> ShortName]] }

\* dict.get(key, default)
dict_get(d, key, default) == IF key \in DOMAIN d THEN d[key] ELSE default

\* a mutant of get_stock_info: a failed lookup is not collapsed into None
get_stock_info_uncaught(ticker, y) ==
    IF y.raises THEN ticker
    ELSE IF "symbol" \in DOMAIN y.info \/ "shortName" \in DOMAIN y.info
         THEN dict_get(y.info, "shortName", dict_get(y.info, "longName", ticker))
         ELSE None

get_stock_info(ticker, y) ==
    IF y.raises THEN None
    ELSE IF "symbol" \in DOMAIN y.info \/ "shortName" \in DOMAIN y.info
         THEN dict_get(y.info, "shortName", dict_get(y.info, "longName", ticker))
         ELSE None

(* ------------------------------ handlers ------------------------------ *)

NoUpdate == [is_set |-> FALSE, is_active |-> FALSE]

\* TickerUpdate: is_active is None (not set) or a bool
TickerUpdates ==
    { NoUpdate, [is_set |-> TRUE, is_active |-> FALSE],
      [is_set |-> TRUE, is_active |-> TRUE] }

\* the attributes of the loaded object that the handlers use afterwards
NoStock == [id |-> 0, is_active |-> FALSE, last_updated |-> 0]

Loaded(row) ==
    [id |-> row.id, is_active |-> row.is_active, last_updated |-> row.last_updated]

IdleReq == [pc |-> "idle", ticker |-> <<>>, stock |-> NoStock, t0 |-> 0]

NoResp == [op |-> "none", status |-> 0, body |-> NoRow, rows |-> <<>>]

Respond(op, status, body) ==
    [op |-> op, status |-> status, body |-> body, rows |-> <<>>]

Init ==
    /\ store = {}
    /\ now = 0
    /\ req = [r \in Reqs |-> IdleReq]
    /\ resp = NoResp
    /\ issued = {}

\* the clock advances between statements
Tick ==
    /\ now < MaxTime
    /\ now' = now + 1
    /\ resp' = NoResp
    /\ UNCHANGED <<store, req, issued>>

\* add_ticker up to the existence check
add_ticker_check(r, raw) ==
    /\ req[r].pc = "idle"
    /\ LET ticker == NormalizeTicker(raw)
           existing == query_first(ticker)
       IN IF existing # NoRow
          THEN /\ resp' = Respond("add", 400, NoRow)
               /\ UNCHANGED req
          ELSE /\ req' = [req EXCEPT ![r] =
                            [IdleReq EXCEPT !.pc = "add_lookup", !.ticker = ticker]]
               /\ resp' = NoResp
    /\ UNCHANGED <<store, now, issued>>

\* add_ticker from the external lookup, which does y, to the response
add_ticker_commit(r, y) ==
    /\ req[r].pc = "add_lookup"
    /\ req' = [req EXCEPT ![r] = IdleReq]
    /\ LET ticker == req[r].ticker
           company_name == get_stock_info(ticker, y)
       IN IF company_name = None
          THEN /\ resp' = Respond("add", 404, NoRow)
               /\ UNCHANGED <<store, now, issued>>
          ELSE IF UniqueViolation(ticker)
          THEN \* IntegrityError is not caught: internal server error
               /\ resp' = Respond("add", 500, NoRow)
               /\ UNCHANGED <<store, now, issued>>
          ELSE /\ NextRowId <= MaxId
               /\ \E t2 \in {now, now + 1} :
                    /\ t2 <= MaxTime
                    /\ LET row == new_ticker(ticker, company_name, now, t2)
                       IN /\ store' = store \cup {row}
                          /\ issued' = issued \cup {row.id}
                          /\ resp' = Respond("add", 201, row)
                    /\ now' = t2

\* a mutant of order_by_ticker: the rows come in primary-key order
RECURSIVE order_by_id(_)
order_by_id(rows) ==
    IF rows = {} THEN <<>>
    ELSE LET first == CHOOSE x \in rows : \A y \in rows : x.id <= y.id
         IN <<first>> \o order_by_id(rows \ {first})

\* ORDER BY ticker
RECURSIVE order_by_ticker(_)
order_by_ticker(rows) ==
    IF rows = {} THEN <<>>
    ELSE LET first == CHOOSE x \in rows :
                        \A y \in rows : ~StrLess(y.ticker, x.ticker)
         IN <<first>> \o order_by_ticker(rows \ {first})

\* query.filter(StockTicker.is_active == True) when active_only
filter_active(rows, active_only) ==
    IF active_only THEN {row \in rows : row.is_active = TRUE} ELSE rows

list_tickers(r, active_only) ==
    /\ req[r].pc = "idle"
    /\ resp' = [Respond("list", 200, NoRow) EXCEPT
                  !.rows = order_by_ticker(filter_active(store, active_only))]
    /\ UNCHANGED <<store, now, req, issued>>

get_ticker(r, raw) ==
    /\ req[r].pc = "idle"
    /\ LET ticker == NormalizeTicker(raw)
           stock == query_first(ticker)
       IN resp' = IF stock = NoRow
                  THEN Respond("get", 404, NoRow)
                  ELSE Respond("get", 200, stock)
    /\ UNCHANGED <<store, now, req, issued>>

\* update_ticker up to the lookup
update_ticker_load(r, raw) ==
    /\ req[r].pc = "idle"
    /\ LET ticker == NormalizeTicker(raw)
           stock == query_first(ticker)
       IN IF stock = NoRow
          THEN /\ resp' = Respond("update", 404, NoRow)
               /\ UNCHANGED req
          ELSE /\ req' = [req EXCEPT ![r] =
                            [pc |-> "upd_commit", ticker |-> ticker,
                             stock |-> Loaded(stock), t0 |-> now]]
               /\ resp' = NoResp
    /\ UNCHANGED <<store, now, issued>>

\* the UPDATE has something to write: a loaded attribute was given another value
is_modified(stock, update_data, t) ==
    \/ update_data.is_set /\ update_data.is_active # stock.is_active
    \/ t # stock.last_updated

\* a mutant of updated_row: last_updated is not refreshed
updated_row_stale(target, stock, update_data, t, flush) ==
    [target EXCEPT
       !.is_active = IF update_data.is_set /\ update_data.is_active # stock.is_active
                     THEN update_data.is_active ELSE @]

\* the row the UPDATE writes: only attributes whose value differs from the
\* loaded one are in SET; when last_updated is not, its onupdate sets it to
\* the time of the flush
updated_row(target, stock, update_data, t, flush) ==
    [target EXCEPT
       !.is_active = IF update_data.is_set /\ update_data.is_active # stock.is_active
                     THEN update_data.is_active ELSE @,
       !.last_updated = IF t # stock.last_updated THEN t ELSE flush]

\* update_ticker from the assignments to the response, for request body
\* update_data; t is the value of datetime.utcnow(), read at some time since
\* the lookup
update_ticker_commit(r, update_data, t) ==
    /\ req[r].pc = "upd_commit"
    /\ t \in req[r].t0 .. now
    /\ req' = [req EXCEPT ![r] = IdleReq]
    /\ LET stock == req[r].stock
       IN IF ~HasId(store, stock.id)
          THEN \* StaleDataError on UPDATE, or the refresh finds no row
               /\ resp' = Respond("update", 500, NoRow)
               /\ UNCHANGED store
          ELSE LET target == RowById(store, stock.id)
                   row == IF is_modified(stock, update_data, t)
                          THEN updated_row(target, stock, update_data, t, now)
                          ELSE target
               IN /\ store' = (store \ {target}) \cup {row}
                  /\ resp' = Respond("update", 200, row)
    /\ UNCHANGED <<now, issued>>

\* delete_ticker up to the lookup
delete_ticker_load(r, raw) ==
    /\ req[r].pc = "idle"
    /\ LET ticker == NormalizeTicker(raw)
           stock == query_first(ticker)
       IN IF stock = NoRow
          THEN /\ resp' = Respond("delete", 404, NoRow)
               /\ UNCHANGED req
          ELSE /\ req' = [req EXCEPT ![r] =
                            [IdleReq EXCEPT !.pc = "del_commit", !.ticker = ticker,
                                            !.stock.id = stock.id]]
               /\ resp' = NoResp
    /\ UNCHANGED <<store, now, issued>>

\* db.delete(stock); db.commit(): DELETE ... WHERE id = stock.id
delete_ticker_commit(r) ==
    /\ req[r].pc = "del_commit"
    /\ store' = {row \in store : row.id # req[r].stock.id}
    /\ req' = [req EXCEPT ![r] = IdleReq]
    /\ resp' = Respond("delete", 204, NoRow)
    /\ UNCHANGED <<now, issued>>

Threads == {"r1"}

\* one request at a time
SeqNext ==
    \/ Tick
    \/ \E r \in Threads, raw \in RawTickers : add_ticker_check(r, raw)
    \/ \E r \in Threads : \E y \in SeqOutcomes(req[r].ticker) : add_ticker_commit(r, y)
    \/ \E r \in Threads, active_only \in BOOLEAN : list_tickers(r, active_only)
    \/ \E r \in Threads, raw \in RawTickers : get_ticker(r, raw)
    \/ \E r \in Threads, raw \in RawTickers : update_ticker_load(r, raw)
    \/ \E r \in Threads, u \in TickerUpdates, t \in 0..MaxTime :
         update_ticker_commit(r, u, t)
    \/ \E r \in Threads, raw \in RawTickers : delete_ticker_load(r, raw)
    \/ \E r \in Threads : delete_ticker_commit(r)

SeqSpec == Init /\ [][SeqNext]_vars

\* one request at a time, blank inputs too
InputNext ==
    \/ Tick
    \/ \E r \in Threads, raw \in RawTickers \cup BlankTickers :
         add_ticker_check(r, raw)
    \/ \E r \in Threads : \E y \in SeqOutcomes(req[r].ticker) : add_ticker_commit(r, y)
    \/ \E r \in Threads, active_only \in BOOLEAN : list_tickers(r, active_only)
    \/ \E r \in Threads, raw \in RawTickers \cup BlankTickers : get_ticker(r, raw)
    \/ \E r \in Threads, raw \in RawTickers \cup BlankTickers :
         update_ticker_load(r, raw)
    \/ \E r \in Threads, u \in TickerUpdates, t \in 0..MaxTime :
         update_ticker_commit(r, u, t)
    \/ \E r \in Threads, raw \in RawTickers \cup BlankTickers :
         delete_ticker_load(r, raw)
    \/ \E r \in Threads : delete_ticker_commit(r)

InputSpec == Init /\ [][InputNext]_vars

\* requests for one symbol in two threads, interleaved, every lookup outcome
Next ==
    \/ Tick
    \/ \E r \in Reqs, raw \in RaceTickers : add_ticker_check(r, raw)
    \/ \E r \in Reqs : \E y \in YfOutcomes(req[r].ticker) : add_ticker_commit(r, y)
    \/ \E r \in Reqs, active_only \in BOOLEAN : list_tickers(r, active_only)
    \/ \E r \in Reqs, raw \in RaceTickers : get_ticker(r, raw)
    \/ \E r \in Reqs, raw \in RaceTickers : update_ticker_load(r, raw)
    \/ \E r \in Reqs, u \in TickerUpdates, t \in 0..MaxTime :
         update_ticker_commit(r, u, t)
    \/ \E r \in Reqs, raw \in RaceTickers : delete_ticker_load(r, raw)
    \/ \E r \in Reqs : delete_ticker_commit(r)

Spec == Init /\ [][Next]_vars

(* ------------------------------ properties ---------------------------- *)

Spaces(n) == [i \in 1..n |-> " "]

\* t is raw in upper case without its surrounding whitespace
Normalizes(raw, t) ==
    /\ \E i, j \in 0..Len(raw) : upper(raw) = Spaces(i) \o t \o Spaces(j)
    /\ t = <<>> \/ (~isspace(t[1]) /\ ~isspace(t[Len(t)]))

Stored(raw) == \E row \in store : Normalizes(raw, row.ticker)

\* C1: in every reachable state, whatever the interleaving of create, update
\* and delete requests, no two stored records have the same ticker.
C1_TickerUnique ==
    \A a, b \in store : a.ticker = b.ticker => a = b

\* two creates of one symbol raced and the table rejected the second insert
C1_Witness ==
    /\ resp.op = "add" /\ resp.status = 500
    /\ \E row \in store : row.ticker = <<"A">>

\* C2: of two creates of the same symbol that both passed the existence check,
\* with the lookup accepting the symbol, the first to commit answers 201 and
\* the other answers 400.
C2_RaceLoserGetsConflict ==
    [][\A r \in Reqs : \A y \in YfOutcomes(req[r].ticker) :
         (add_ticker_commit(r, y) /\ get_stock_info(req[r].ticker, y) # None)
         => IF \E row \in store : row.ticker = req[r].ticker
            THEN resp'.status = 400
            ELSE resp'.status = 201]_vars

\* C3: a create whose input normalizes to a stored ticker answers 400, never
\* reaches the external lookup and leaves the table as it was.
C3_DuplicateCreateRejected ==
    [][\A r \in Reqs : \A raw \in RawTickers :
         (add_ticker_check(r, raw) /\ Stored(raw))
         => /\ resp'.op = "add" /\ resp'.status = 400
            /\ req'[r].pc = "idle"
            /\ store' = store]_vars

\* a create was answered 400 while exactly one record is stored
C3_Witness ==
    resp.op = "add" /\ resp.status = 400 /\ Cardinality(store) = 1

\* the lookup raised, or returned info with neither symbol nor shortName
LookupFails(y) ==
    y.raises \/ {"symbol", "shortName"} \cap DOMAIN y.info = {}

\* C4: a create whose lookup raises or finds nothing answers 404 and leaves
\* the table as it was.
C4_FailedLookupCreatesNothing ==
    [][\A r \in Reqs : \A y \in YfOutcomes(req[r].ticker) :
         (add_ticker_commit(r, y) /\ LookupFails(y))
         => /\ resp'.op = "add" /\ resp'.status = 404
            /\ store' = store]_vars

\* a create was answered 404
C4_Witness ==
    resp.op = "add" /\ resp.status = 404

\* C5: list returns exactly the stored records (the active ones when
\* active_only), each once, in ascending order of ticker, and leaves the
\* table as it was.
C5_ListFilteredAndSorted ==
    [][\A r \in Reqs : \A active_only \in BOOLEAN :
         list_tickers(r, active_only)
         => LET rows == resp'.rows
            IN /\ resp'.status = 200
               /\ {rows[i] : i \in 1..Len(rows)}
                    = {row \in store : active_only => row.is_active}
               /\ \A i, j \in 1..Len(rows) :
                    i < j => StrLess(rows[i].ticker, rows[j].ticker)
               /\ store' = store]_vars

\* a list of two records whose ticker order is not their creation order
C5_Witness ==
    /\ resp.op = "list" /\ Len(resp.rows) = 2
    /\ resp.rows[1].id > resp.rows[2].id

\* C6 as stated: every successful update leaves last_updated strictly greater
\* than it was before the call.
C6_LastUpdatedStrictlyGreater ==
    [][\A r \in Reqs : \A u \in TickerUpdates : \A t \in 0..MaxTime :
         (update_ticker_commit(r, u, t) /\ resp'.status = 200)
         => resp'.body.last_updated > req[r].stock.last_updated]_vars

\* C6 amended: a successful update, not interleaved with another request,
\* sets is_active to the supplied value, or keeps it when none is supplied,
\* changes nothing else but last_updated, which becomes a clock reading of the
\* call: never less than before, and greater when the clock has advanced since
\* the record was last written; a following get returns that record.
C6_UpdateRefreshes ==
    [][\A r \in Reqs : \A u \in TickerUpdates : \A t \in 0..MaxTime :
         (update_ticker_commit(r, u, t) /\ resp'.status = 200)
         => LET old == RowById(store, req[r].stock.id)
                new == resp'.body
            IN /\ new.is_active = IF u.is_set THEN u.is_active ELSE old.is_active
               /\ new = [old EXCEPT !.is_active = new.is_active,
                                    !.last_updated = new.last_updated]
               /\ new.last_updated \in req[r].t0 .. now
               /\ new.last_updated >= old.last_updated
               /\ req[r].t0 > old.last_updated
                    => new.last_updated > old.last_updated
               /\ store' = (store \ {old}) \cup {new}]_vars

\* an update deactivated a record at a later clock reading than its creation
C6_Witness ==
    /\ resp.op = "update" /\ resp.status = 200
    /\ resp.body.is_active = FALSE
    /\ resp.body.last_updated > resp.body.added_at
    /\ resp.body \in store

\* C7: a get, update or delete of a ticker with no stored record answers 404
\* and leaves the table as it was.
C7_AbsentTickerNotFound ==
    [][\A r \in Reqs : \A raw \in RawTickers :
         (/\ \/ get_ticker(r, raw)
             \/ update_ticker_load(r, raw)
             \/ delete_ticker_load(r, raw)
          /\ ~Stored(raw))
         => /\ resp'.status = 404
            /\ req'[r].pc = "idle"
            /\ store' = store]_vars

\* a get answered 404 after the only record ever created was deleted
C7_Witness ==
    /\ resp.op = "get" /\ resp.status = 404
    /\ issued # {} /\ store = {}

\* C8: a record keeps its id, and an insert never hands out an id that an
\* earlier record has held.
C8_IdNeverReused ==
    [][/\ \A new \in store' :
            (~HasId(store, new.id)) => new.id \notin issued
       /\ \A old \in store : \A new \in store' :
            old.ticker = new.ticker /\ old.added_at = new.added_at
            => old.id = new.id]_vars

\* C9: in every reachable state every stored record has
\* last_updated >= added_at.
C9_LastUpdatedNotBeforeAdded ==
    \A row \in store : row.last_updated >= row.added_at

\* C10: in every reachable state every stored ticker is non-empty, in upper
\* case and without surrounding whitespace.
C10_TickerNonEmptyNormalized ==
    \A row \in store : row.ticker # <<>> /\ Normalizes(row.ticker, row.ticker)

====
